---------------------------- MODULE Spec2Model ----------------------------
(***************************************************************************)
(* BlackboardSync: the sync engine (blackboard_sync/sync.py) and the       *)
(* folder content node (blackboard_sync/content/folder.py).                *)
(*                                                                         *)
(* The scheduler is the object BlackboardSync together with the Sync       *)
(* threads that start_sync() creates; every thread runs _sync_task().      *)
(* One model time unit stands for the 1800 s of the sync interval, except  *)
(* in OutdatedSpec, where the clock counts seconds.                        *)
(***************************************************************************)
EXTENDS Integers, Sequences, FiniteSets

\* ------------------------------------------------------------------ bounds
\* Sync threads that can be alive at once (a finished thread's slot is reused).
MaxThreads == 2
\* The clock runs from 0 to MaxTime.
MaxTime == 1
\* A loop's failed_attempts counter is followed up to this value.
MaxFails == 3
\* Children that fetch_content_children returns for one folder, at most.
MaxChildren == 3
\* Where outdated is read against a clock in seconds, the clock runs from 0
\* to MaxClock.
MaxClock == 2000

\* ------------------------------------------------------- program constants
\* self._sync_interval = 60 * 30, in model time units
SyncInterval == 1
\* self._sync_interval = 60 * 30, in seconds
SyncIntervalSeconds == 1800
\* _max_retries = 3
_max_retries == 3
\* Python's None, for an optional datetime
None == -1
\* the attribute self.last_sync before line 139 first creates it
NoAttr == -2

Threads == 1..MaxThreads
\* directories a caller can hand to change_download_location()
Dirs == {"dir1", "dir2"}
\* values a caller can assign to sync_interval, in model time units
Intervals == {1, 2}
\* cookie jars a caller can supply to auth()
Creds == {"jar1", "jar2"}
\* how BlackboardDownload.download() ends: it returns, or raises ValueError,
\* requests' ConnectionError, or any other exception
Outcomes == {"ok", "ValueError", "ConnectionError", "Exception"}

VARIABLES
    now,               \* datetime.now(timezone.utc)
    last_sync_time,    \* self._config.last_sync_time
    _next_sync,        \* self._next_sync
    last_sync,         \* self.last_sync, the attribute line 139 assigns
    _sync_interval,    \* self._sync_interval
    _is_logged_in,     \* self._is_logged_in
    _force_sync,       \* self._force_sync
    _is_syncing,       \* self._is_syncing
    _is_active,        \* self._is_active
    sess,              \* self.sess: "NoAttr", "None" or the jar of the session
    _cookies,          \* self._cookies: "NoAttr" or a jar
    sync_threads,      \* the Sync threads, each running _sync_task()
    forced_idle,       \* history: _force_sync is set, and force_sync() was last
                       \* called with the loop active and no job in flight
    forced_busy,       \* history: force_sync() was called with a job in
                       \* flight, and no job has been started since
    download_location, \* self._config.download_location
    raised,            \* the exception the last call of
                       \* change_download_location ended with, or "None"
    observed,          \* what the last read of the outdated property gave
    f_remote,          \* what job.session.fetch_content_children returns
    f_cutoff,          \* the cutoff of the DownloadJob the Folder is built for
    f_pc,              \* the Folder: "new", "built", "writing", "written"
    children,          \* Folder.children
    f_next,            \* the child the loop of Folder.write is at
    f_fetches,         \* calls of fetch_content_children made so far
    f_events           \* the calls made by Folder.write, in order

schedVars == <<now, last_sync_time, _next_sync, last_sync, _sync_interval,
               _is_logged_in, _force_sync, _is_syncing, _is_active, sess,
               _cookies, sync_threads, forced_idle, forced_busy,
               download_location, raised, observed>>

\* what only change_download_location and a read of outdated write
apiVars == <<download_location, raised, observed>>

folderVars == <<f_remote, f_cutoff, f_pc, children, f_next, f_fetches,
                f_events>>

\* A Sync thread: where it is in _sync_task and the locals of _sync_task.
\*   pc: "idle" (no thread in this slot), "loop" (at the while condition, or
\*       asleep before it), "download" (inside new_download.download()),
\*       "done" (returned), "dead" (ended by an uncaught exception)
\*   start: the instant the job in flight began (download()'s return value)
\*   job_sess: the session BlackboardDownload was constructed with
\* History of the loop, kept for the properties:
\*   streak: the loop's jobs that ended in a transient failure, in a row;
\*   stopped: stop_sync() was called since the loop last read _is_active;
\*   reauths: calls of auth() made by the loop itself
\* A thread that has ended keeps its pc and its reauths only.
NewThread == [pc |-> "loop", reload_session |-> FALSE, failed_attempts |-> 0,
              start |-> None, job_sess |-> "None", streak |-> 0,
              stopped |-> FALSE, reauths |-> 0]

NoThread == [NewThread EXCEPT !.pc = "idle"]

DeadThread == [NewThread EXCEPT !.pc = "dead"]

DoneThread(n) == [NewThread EXCEPT !.pc = "done", !.reauths = n]

Free(ths) == {t \in Threads : ths[t].pc \in {"idle", "done", "dead"}}

FreeSlot(ths) == CHOOSE t \in Free(ths) : \A u \in Free(ths) : t <= u

\* threading.Thread(target=self._sync_task).start()
Spawn(ths) == [ths EXCEPT ![FreeSlot(ths)] = NewThread]

\* stop_sync() reaches every running loop: they share self._is_active
Stopped(ths) ==
    [t \in Threads |->
        IF ths[t].pc \in {"loop", "download"}
        THEN [ths[t] EXCEPT !.stopped = TRUE] ELSE ths[t]]

\* the threads inside download(), and the threads whose loop is running
InFlight == {t \in Threads : sync_threads[t].pc = "download"}

Loops == {t \in Threads : sync_threads[t].pc \in {"loop", "download"}}

\* --------------------------------------------------------- pure functions
\* _update_next_sync: last_sync_time + timedelta(seconds=_sync_interval)
UpdateNextSync(last, interval) == last + interval

\* outdated with > written for >=
outdated_mut(last, next, clock) == IF last = None THEN TRUE ELSE clock > next

\* the outdated property
outdated(last, next, clock) == IF last = None THEN TRUE ELSE clock >= next

\* failed_attempts after a job that ended with outcome o
FailedAttempts(fa, o) ==
    CASE o = "ok" -> 0
      [] o = "ConnectionError" -> fa + 1
      [] OTHER -> fa

\* CouldNotSync with > written for >=
CouldNotSync_mut(fa) == fa > _max_retries

\* line 152, "Could not sync"
CouldNotSync(fa) == fa >= _max_retries

\* ReloadSession without the assignment of line 144
ReloadSession_mut(reload, o) == reload

\* reload_session after a job that ended with outcome o
ReloadSession(reload, o) == reload \/ o = "ValueError"

\* ---------------------------------------------------------------- Init
SchedInit ==
    /\ now = 0
    /\ last_sync_time \in {None, 0}
    /\ _sync_interval = SyncInterval
    /\ _next_sync = IF last_sync_time = None THEN None
                    ELSE UpdateNextSync(last_sync_time, _sync_interval)
    /\ last_sync = NoAttr
    /\ _is_logged_in = FALSE
    /\ _force_sync = FALSE
    /\ _is_syncing = FALSE
    /\ _is_active = FALSE
    /\ sess = "NoAttr"
    /\ _cookies = "NoAttr"
    /\ sync_threads = [t \in Threads |-> NoThread]
    /\ forced_idle = FALSE
    /\ forced_busy = FALSE
    /\ download_location = "dir1"
    /\ raised = "None"
    /\ observed = "unread"

\* ------------------------------------------------------ public operations
\* auth(cookie_jar); accepted: BlackboardSession(cookie_jar) did not raise
auth(jar, accepted) ==
    /\ accepted => Free(sync_threads) # {}
    /\ _cookies' = jar
    /\ IF accepted
       THEN /\ sess' = jar
            /\ _is_logged_in' = TRUE
            /\ _is_active' = TRUE
            /\ sync_threads' = Spawn(sync_threads)
       ELSE UNCHANGED <<sess, _is_logged_in, _is_active, sync_threads>>
    /\ UNCHANGED <<now, last_sync_time, _next_sync, last_sync, _sync_interval,
                   _force_sync, _is_syncing>>
    /\ UNCHANGED <<folderVars, apiVars, forced_idle, forced_busy>>

log_out ==
    /\ _is_active' = FALSE
    /\ sess' = "None"
    /\ _is_logged_in' = FALSE
    /\ sync_threads' = Stopped(sync_threads)
    /\ UNCHANGED <<now, last_sync_time, _next_sync, last_sync, _sync_interval,
                   _force_sync, _is_syncing, _cookies>>
    /\ UNCHANGED <<folderVars, apiVars, forced_idle, forced_busy>>

start_sync ==
    /\ Free(sync_threads) # {}
    /\ _is_active' = TRUE
    /\ sync_threads' = Spawn(sync_threads)
    /\ UNCHANGED <<now, last_sync_time, _next_sync, last_sync, _sync_interval,
                   _is_logged_in, _force_sync, _is_syncing, sess, _cookies>>
    /\ UNCHANGED <<folderVars, apiVars, forced_idle, forced_busy>>

stop_sync ==
    /\ _is_active' = FALSE
    /\ sync_threads' = Stopped(sync_threads)
    /\ UNCHANGED <<now, last_sync_time, _next_sync, last_sync, _sync_interval,
                   _is_logged_in, _force_sync, _is_syncing, sess, _cookies>>
    /\ UNCHANGED <<folderVars, apiVars, forced_idle, forced_busy>>

force_sync ==
    /\ _force_sync' = TRUE
    /\ forced_idle' = (_is_active /\ Loops # {} /\ InFlight = {})
    /\ forced_busy' = (forced_busy \/ InFlight # {})
    /\ UNCHANGED <<now, last_sync_time, _next_sync, last_sync, _sync_interval,
                   _is_logged_in, _is_syncing, _is_active, sess, _cookies, sync_threads>>
    /\ UNCHANGED <<folderVars, apiVars>>

\* the last_sync_time setter, lines 206 to 210: the configuration is
\* written first; _update_next_sync then adds a timedelta to it, which for
\* None raises TypeError and leaves _next_sync as it was
SetLastSyncTime(last_time) ==
    /\ last_sync_time' = last_time
    /\ IF last_time = None
       THEN /\ raised' = "TypeError"
            /\ UNCHANGED _next_sync
       ELSE /\ raised' = "None"
            /\ _next_sync' = UpdateNextSync(last_time, _sync_interval)

\* change_download_location(new_dir, redownload)
change_download_location(new_dir, redownload) ==
    /\ IF new_dir # download_location
       THEN /\ download_location' = new_dir
            /\ IF redownload
               THEN SetLastSyncTime(None)
               ELSE /\ raised' = "None"
                    /\ UNCHANGED <<last_sync_time, _next_sync>>
       ELSE /\ raised' = "None"
            /\ UNCHANGED <<download_location, last_sync_time, _next_sync>>
    /\ UNCHANGED <<now, last_sync, _sync_interval, _is_logged_in, _force_sync,
                   _is_syncing, _is_active, sess, _cookies, sync_threads>>
    /\ UNCHANGED <<folderVars, observed, forced_idle, forced_busy>>

\* the sync_interval setter, lines 264 to 266
set_sync_interval(p) ==
    /\ _sync_interval' = p
    /\ UNCHANGED <<now, last_sync_time, _next_sync, last_sync, _is_logged_in,
                   _force_sync, _is_syncing, _is_active, sess, _cookies,
                   sync_threads>>
    /\ UNCHANGED <<folderVars, apiVars, forced_idle, forced_busy>>

\* the clock
Advance ==
    /\ now < MaxTime
    /\ now' = now + 1
    /\ UNCHANGED <<last_sync_time, _next_sync, last_sync, _sync_interval,
                   _is_logged_in, _force_sync, _is_syncing, _is_active, sess,
                   _cookies, sync_threads>>
    /\ UNCHANGED <<folderVars, apiVars, forced_idle, forced_busy>>

\* ------------------------------------------------------------ _sync_task
AtLoop(t) == sync_threads[t].pc = "loop"

WantsJob == outdated(last_sync_time, _next_sync, now) \/ _force_sync

\* a tick that finds nothing to do: lines 130, 131 and 158
Wait(t) ==
    /\ AtLoop(t)
    /\ _is_active
    /\ ~WantsJob
    /\ sync_threads' = [sync_threads EXCEPT ![t].stopped = FALSE]
    /\ UNCHANGED <<now, last_sync_time, _next_sync, last_sync, _sync_interval,
                   _is_logged_in, _force_sync, _is_syncing, _is_active, sess,
                   _cookies>>
    /\ UNCHANGED <<folderVars, apiVars, forced_idle, forced_busy>>

\* a tick that starts a job: lines 130 to 139, up to the call of download()
StartJob(t) ==
    /\ AtLoop(t)
    /\ _is_active
    /\ WantsJob
    /\ sess # "NoAttr"
    /\ _is_syncing' = TRUE
    /\ sync_threads' = [sync_threads EXCEPT ![t].pc = "download",
                                            ![t].start = now,
                                            ![t].job_sess = sess,
                                            ![t].stopped = FALSE]
    /\ UNCHANGED <<now, last_sync_time, _next_sync, last_sync, _sync_interval,
                   _is_logged_in, _force_sync, _is_active, sess, _cookies>>
    /\ UNCHANGED <<folderVars, apiVars, forced_idle>>
    /\ forced_busy' = FALSE

\* the same tick when self.sess was never assigned: line 136 raises
\* AttributeError outside the try, and the thread ends
NoSession(t) ==
    /\ AtLoop(t)
    /\ _is_active
    /\ WantsJob
    /\ sess = "NoAttr"
    /\ _is_syncing' = TRUE
    /\ sync_threads' = [sync_threads EXCEPT ![t] = DeadThread]
    /\ UNCHANGED <<now, last_sync_time, _next_sync, last_sync, _sync_interval,
                   _is_logged_in, _force_sync, _is_active, sess, _cookies>>
    /\ UNCHANGED <<folderVars, apiVars, forced_idle, forced_busy>>

\* download() ends with outcome o, and the rest of the loop body: lines 139
\* to 158. A job made with sess = None has no session to talk to: it can
\* only end in an exception that is neither of the two handled ones.
JobEnds(t, o) ==
    LET th == sync_threads[t]
        fa == FailedAttempts(th.failed_attempts, o)
        out == o = "ValueError" \/ CouldNotSync(fa)
    IN  /\ th.pc = "download"
        /\ th.job_sess = "None" => o = "Exception"
        /\ fa <= MaxFails
        /\ IF o = "Exception"
           THEN /\ sync_threads' = [sync_threads EXCEPT ![t] = DeadThread]
                /\ UNCHANGED <<last_sync, _force_sync, _is_syncing, _is_active,
                               sess, _is_logged_in, forced_idle>>
           ELSE /\ last_sync' = IF o = "ok" THEN th.start ELSE last_sync
                /\ _is_active' = IF out THEN FALSE ELSE _is_active
                /\ sess' = IF out THEN "None" ELSE sess
                /\ _is_logged_in' = IF out THEN FALSE ELSE _is_logged_in
                /\ _force_sync' = FALSE
                /\ forced_idle' = FALSE
                /\ _is_syncing' = FALSE
                /\ sync_threads' =
                     [(IF out THEN Stopped(sync_threads) ELSE sync_threads)
                        EXCEPT ![t] =
                          [th EXCEPT
                             !.pc = "loop",
                             !.start = None,
                             !.job_sess = "None",
                             !.failed_attempts = fa,
                             !.reload_session = ReloadSession(th.reload_session, o),
                             !.streak = IF o = "ConnectionError"
                                        THEN th.streak + 1 ELSE 0,
                             !.stopped = out \/ th.stopped]]
        /\ UNCHANGED <<now, last_sync_time, _next_sync, _sync_interval,
                       _cookies>>
        /\ UNCHANGED <<folderVars, apiVars, forced_busy>>

\* the loop ends (line 130 finds _is_active false) with reload_session false
Exit(t) ==
    /\ AtLoop(t)
    /\ ~_is_active
    /\ ~sync_threads[t].reload_session
    /\ sync_threads' = [sync_threads EXCEPT ![t] = DoneThread(0)]
    /\ UNCHANGED <<now, last_sync_time, _next_sync, last_sync, _sync_interval,
                   _is_logged_in, _force_sync, _is_syncing, _is_active, sess,
                   _cookies>>
    /\ UNCHANGED <<folderVars, apiVars, forced_idle, forced_busy>>

\* the loop ends with reload_session true: line 161, self.auth(self._cookies)
ExitReauth(t, accepted) ==
    LET jar == _cookies
        n == sync_threads[t].reauths + 1
    IN  /\ AtLoop(t)
        /\ ~_is_active
        /\ sync_threads[t].reload_session
        /\ _cookies # "NoAttr"
        /\ accepted => Free(sync_threads) # {}
        /\ _cookies' = jar
        /\ IF accepted
           THEN /\ sess' = jar
                /\ _is_logged_in' = TRUE
                /\ _is_active' = TRUE
                /\ sync_threads' =
                     [Spawn(sync_threads) EXCEPT ![t] = DoneThread(n)]
           ELSE /\ UNCHANGED <<sess, _is_logged_in, _is_active>>
                /\ sync_threads' = [sync_threads EXCEPT ![t] = DoneThread(n)]
        /\ UNCHANGED <<now, last_sync_time, _next_sync, last_sync,
                       _sync_interval, _force_sync, _is_syncing>>
        /\ UNCHANGED <<folderVars, apiVars, forced_idle, forced_busy>>

SchedNext ==
    \/ \E jar \in Creds, accepted \in BOOLEAN : auth(jar, accepted)
    \/ log_out
    \/ start_sync
    \/ stop_sync
    \/ force_sync
    \/ Advance
    \/ \E t \in Threads : Wait(t)
    \/ \E t \in Threads : StartJob(t)
    \/ \E t \in Threads : NoSession(t)
    \/ \E t \in Threads, o \in Outcomes : JobEnds(t, o)
    \/ \E t \in Threads : Exit(t)
    \/ \E t \in Threads, accepted \in BOOLEAN : ExitReauth(t, accepted)

vars == <<schedVars, folderVars>>

\* ------------------------------------------------------------ Folder
\* A child that fetch_content_children returns: whether it has a
\* contentHandler (and of which kind) and when it was last modified (None:
\* not known).
Handlers == {"none", "folder", "document"}

Modified == {None, 0, 2}

\* the cutoff of a job: None (everything is downloaded) or an instant
Cutoffs == {None, 1}

Remote == [contentHandler : Handlers, modified : Modified]

Remotes ==
    UNION {[1..n -> Remote] : n \in 0..MaxChildren}

\* cont.Content(child, {'content_id': child.id, ...}, job)
Child(i, r) ==
    [id |-> i, contentHandler |-> r.contentHandler, modified |-> r.modified]

\* The filtering policy of the Download Job: content is submitted for
\* download when its modification time is not known, when the job has no
\* cutoff, or when it was modified at the cutoff or later.
Eligible(c, cutoff) ==
    c.modified = None \/ cutoff = None \/ c.modified >= cutoff

\* a leaf that the cutoff keeps out of the pass
Excluded(c, cutoff) ==
    c.contentHandler = "document" /\ ~Eligible(c, cutoff)

\* HasHandler without the test of line 21
HasHandler_mut(h) == TRUE

\* line 21: child.contentHandler is not None
HasHandler(h) == h # "none"

\* lines 20 to 24: the children kept, in the order fetched
RECURSIVE Kept(_, _)
Kept(remote, i) ==
    IF i > Len(remote) THEN <<>>
    ELSE (IF HasHandler(remote[i].contentHandler)
          THEN <<Child(i, remote[i])>> ELSE <<>>)
         \o Kept(remote, i + 1)

\* NeedsDir without the test of line 27
NeedsDir_mut(cs) == TRUE

\* line 27: if self.children
NeedsDir(cs) == cs # <<>>

Mkdir == [op |-> "mkdir", child |-> 0, parents |-> TRUE]

Write(c) == [op |-> "write", child |-> c.id, parents |-> FALSE]

FolderInit ==
    /\ f_remote \in Remotes
    /\ f_cutoff \in Cutoffs
    /\ f_pc = "new"
    /\ children = <<>>
    /\ f_next = 1
    /\ f_fetches = 0
    /\ f_events = <<>>

\* Folder.__init__
Folder_init ==
    /\ f_pc = "new"
    /\ f_fetches' = f_fetches + 1
    /\ children' = Kept(f_remote, 1)
    /\ f_pc' = "built"
    /\ UNCHANGED <<f_remote, f_cutoff, f_next, f_events>>
    /\ UNCHANGED schedVars

\* Folder.write, lines 27 and 28
write_mkdir ==
    /\ f_pc = "built"
    /\ f_events' = IF NeedsDir(children) THEN Append(f_events, Mkdir)
                   ELSE f_events
    /\ f_pc' = "writing"
    /\ UNCHANGED <<f_remote, f_cutoff, children, f_next, f_fetches>>
    /\ UNCHANGED schedVars

\* Folder.write, lines 30 and 31: child.write(path, executor)
write_child ==
    /\ f_pc = "writing"
    /\ f_next <= Len(children)
    /\ f_events' = Append(f_events, Write(children[f_next]))
    /\ f_next' = f_next + 1
    /\ UNCHANGED <<f_remote, f_cutoff, f_pc, children, f_fetches>>
    /\ UNCHANGED schedVars

\* Folder.write returns
write_return ==
    /\ f_pc = "writing"
    /\ f_next > Len(children)
    /\ f_pc' = "written"
    /\ UNCHANGED <<f_remote, f_cutoff, children, f_next, f_fetches, f_events>>
    /\ UNCHANGED schedVars

\* ------------------------------------------------------ specifications
\* the scheduler; no folder is being built
Init ==
    /\ SchedInit
    /\ f_remote = <<>>
    /\ f_cutoff = None
    /\ f_pc = "new"
    /\ children = <<>>
    /\ f_next = 1
    /\ f_fetches = 0
    /\ f_events = <<>>

Next == SchedNext

Spec == Init /\ [][Next]_vars

\* the scheduler with the calls that change its settings: jobs, the
\* sync_interval setter and change_download_location
SettingsNext ==
    \/ \E jar \in Creds, accepted \in BOOLEAN : auth(jar, accepted)
    \/ stop_sync
    \/ Advance
    \/ \E p \in Intervals : set_sync_interval(p)
    \/ \E d \in Dirs, redownload \in BOOLEAN :
          change_download_location(d, redownload)
    \/ \E t \in Threads : Wait(t)
    \/ \E t \in Threads : StartJob(t)
    \/ \E t \in Threads, o \in Outcomes : JobEnds(t, o)
    \/ \E t \in Threads : Exit(t)
    \/ \E t \in Threads, accepted \in BOOLEAN : ExitReauth(t, accepted)

SettingsSpec == Init /\ [][SettingsNext]_vars

\* The outdated property read against a clock in seconds: a constructed
\* BlackboardSync with the interval of 1800 s, over a configuration that
\* holds no last_sync_time or one of two instants.
StoredTimes == {None, 0, 100}

\* seconds that pass between two reads of the clock
Steps == {1, 100, 1700}

OutdatedInit ==
    /\ now = 0
    /\ last_sync_time \in StoredTimes
    /\ _sync_interval = SyncIntervalSeconds
    /\ _next_sync = IF last_sync_time = None THEN None
                    ELSE UpdateNextSync(last_sync_time, _sync_interval)
    /\ last_sync = NoAttr
    /\ _is_logged_in = FALSE
    /\ _force_sync = FALSE
    /\ _is_syncing = FALSE
    /\ _is_active = FALSE
    /\ sess = "NoAttr"
    /\ _cookies = "NoAttr"
    /\ sync_threads = [t \in Threads |-> NoThread]
    /\ forced_idle = FALSE
    /\ forced_busy = FALSE
    /\ download_location = "dir1"
    /\ raised = "None"
    /\ observed = "unread"
    /\ f_remote = <<>>
    /\ f_cutoff = None
    /\ f_pc = "new"
    /\ children = <<>>
    /\ f_next = 1
    /\ f_fetches = 0
    /\ f_events = <<>>

\* d seconds pass
Elapse(d) ==
    /\ now + d <= MaxClock
    /\ now' = now + d
    /\ observed' = "unread"
    /\ UNCHANGED <<last_sync_time, _next_sync, last_sync, _sync_interval,
                   _is_logged_in, _force_sync, _is_syncing, _is_active, sess,
                   _cookies, sync_threads, forced_idle, forced_busy,
                   download_location, raised>>
    /\ UNCHANGED folderVars

\* a read of the property outdated
read_outdated ==
    /\ observed' = IF outdated(last_sync_time, _next_sync, now)
                   THEN "True" ELSE "False"
    /\ UNCHANGED <<now, last_sync_time, _next_sync, last_sync, _sync_interval,
                   _is_logged_in, _force_sync, _is_syncing, _is_active, sess,
                   _cookies, sync_threads, forced_idle, forced_busy,
                   download_location, raised>>
    /\ UNCHANGED folderVars

OutdatedNext ==
    \/ \E d \in Steps : Elapse(d)
    \/ read_outdated

OutdatedSpec == OutdatedInit /\ [][OutdatedNext]_vars

\* one Folder, built and written; the scheduler was only constructed
FolderSpecInit ==
    /\ SchedInit
    /\ FolderInit

FolderNext ==
    \/ Folder_init
    \/ write_mkdir
    \/ write_child
    \/ write_return

FolderSpec == FolderSpecInit /\ [][FolderNext]_vars

\* ---------------------------------------------------------- properties
\* one evaluation of the loop condition by thread t, and what follows it
Tick(t) ==
    \/ Wait(t)
    \/ StartJob(t)
    \/ NoSession(t)
    \/ Exit(t)
    \/ \E accepted \in BOOLEAN : ExitReauth(t, accepted)

\* line 114: return self._is_logged_in
auth_returns == _is_logged_in

LoggedOut == ~_is_logged_in /\ sess = "None" /\ ~_is_active

\* C1: at most one Download Job is executing, in every reachable state.
C1_OneJobAtATime == Cardinality(InFlight) <= 1

\* C2: when a job that began at T returns successfully, last_sync_time is
\* T, next_sync_time is T + sync_interval and failed_attempts is 0.
C2_SuccessUpdatesTimes ==
    [][\A t \in Threads :
         JobEnds(t, "ok") =>
           /\ last_sync_time' = sync_threads[t].start
           /\ _next_sync' = sync_threads[t].start + _sync_interval
           /\ sync_threads'[t].failed_attempts = 0]_vars

\* C3: with last_sync_time unset, outdated is false right after a
\* successful job, and a tick before next_sync_time with force_sync false
\* starts no job.
C3_FreshAfterSuccess ==
    [][\A t \in Threads :
         (last_sync_time = None /\ JobEnds(t, "ok")) =>
           ~outdated(last_sync_time', _next_sync', now')]_vars

\* C4: when force_sync() was called with the loop active and no job in
\* flight, the next tick of the still active loop starts a Download Job,
\* whatever outdated is.
C4_ForceStartsJob ==
    [][\A t \in Threads :
         (forced_idle /\ _is_active /\ Tick(t)) =>
           sync_threads'[t].pc = "download"]_vars

\* C5: in a loop that met no session invalidation, the job that is the
\* third transient failure in a row logs the Scheduler out (is_logged_in
\* false, session cleared, is_active false), and the first and the second
\* leave is_logged_in, the session and is_active as they were.
C5_CircuitBreaker ==
    [][\A t \in Threads :
         (JobEnds(t, "ConnectionError") /\ ~sync_threads[t].reload_session) =>
           LET k == sync_threads'[t].streak
           IN  /\ k = sync_threads[t].streak + 1
               /\ k >= _max_retries => LoggedOut'
               /\ k < _max_retries =>
                    UNCHANGED <<_is_logged_in, sess, _is_active>>]_vars

\* a loop logged the Scheduler out at its third transient failure in a row
C5_Witness ==
    \E t \in Threads :
       /\ sync_threads[t].pc = "loop"
       /\ sync_threads[t].streak = _max_retries
       /\ ~sync_threads[t].reload_session
       /\ LoggedOut

C7_StopEndsLoop ==
    [][\A t \in Threads :
         (sync_threads[t].stopped /\ Tick(t)) =>
           sync_threads'[t].pc = "done"]_vars

\* C8: a job that raises an unexpected exception does not end its loop.
C8_LoopSurvivesException ==
    [][\A t \in Threads :
         JobEnds(t, "Exception") => sync_threads'[t].pc = "loop"]_vars

\* C9: auth() with a credential that is rejected returns false and starts
\* no loop.
C9_RejectedAuthReturnsFalse ==
    [][\A jar \in Creds :
         auth(jar, FALSE) =>
           /\ ~auth_returns'
           /\ Loops' = Loops]_vars

\* the calls Folder.write makes for a folder with children cs
Expected(cs) ==
    IF cs = <<>> THEN <<>>
    ELSE <<Mkdir>> \o [i \in 1..Len(cs) |-> Write(cs[i])]

\* C10: Folder.write on a folder without children makes no directory; on
\* a folder with children it makes the directory (with parents) first and
\* then calls write on every child once, in order.
C10_FolderWrite ==
    /\ Len(f_events) <= Len(Expected(children))
    /\ f_events = SubSeq(Expected(children), 1, Len(f_events))
    /\ f_pc = "written" => f_events = Expected(children)
    /\ f_pc \in {"new", "built"} => f_events = <<>>

\* a folder with two children or more, one of those fetched being dropped,
\* has been written
C10_Witness ==
    /\ f_pc = "written"
    /\ Len(children) >= 2
    /\ Len(children) < Len(f_remote)
    /\ f_events[1] = Mkdir

\* a folder whose children were all dropped has been written
C10_WitnessEmpty ==
    /\ f_pc = "written"
    /\ children = <<>>
    /\ f_remote # <<>>

\* C11: a folder whose children are all excluded by the cutoff of the job
\* produces no directory: Folder.write on it never calls mkdir.
C11_NoDirWithoutEligible ==
    (\A i \in 1..Len(children) : Excluded(children[i], f_cutoff)) =>
        Mkdir \notin {f_events[k] : k \in 1..Len(f_events)}

\* C12: change_download_location(new_dir, redownload=True) with new_dir
\* different from the current location completes normally and leaves
\* download_location = new_dir and last_sync_time unset, so that outdated
\* is true (the next job is created with no cutoff).
C12_RedownloadCompletes ==
    [][\A d \in Dirs :
         (d # download_location /\ change_download_location(d, TRUE)) =>
           /\ raised' = "None"
           /\ download_location' = d
           /\ last_sync_time' = None
           /\ outdated(last_sync_time', _next_sync', now')]_vars

\* C13: outdated is true exactly when last_sync_time is unset or the clock
\* has reached next_sync_time, at every clock value; with last_sync_time =
\* T0 and the interval of 1800 s it is false at T0 + 1700 and true at
\* T0 + 1801.
C13_Outdated ==
    observed # "unread" =>
      /\ observed = "True" <=> (last_sync_time = None \/ now >= _next_sync)
      /\ (last_sync_time # None /\ _sync_interval = 1800) =>
            /\ now = last_sync_time + 1700 => observed = "False"
            /\ now = last_sync_time + 1801 => observed = "True"

\* outdated was read 1700 s after a stored last_sync_time and gave false
C13_Witness ==
    /\ last_sync_time # None
    /\ now = last_sync_time + 1700
    /\ observed = "False"

\* outdated was read 1801 s after a stored last_sync_time and gave true
C13_WitnessAfter ==
    /\ last_sync_time # None
    /\ now = last_sync_time + 1801
    /\ observed = "True"

\* C14: in every reachable state is_syncing is true if and only if a
\* Download Job is in flight.
C14_SyncingIffJob == _is_syncing <=> InFlight # {}

\* C15: after every job attempt, whatever its outcome, force_sync is false.
C15_ForceCleared ==
    [][\A t \in Threads, o \in Outcomes :
         JobEnds(t, o) => ~_force_sync']_vars

\* C16: failed_attempts is one count over the Scheduler's lifetime: a job
\* that ends with a transient failure adds 1 to it, a successful job sets
\* it to 0, a session invalidation leaves it as it is, and so does
\* start_sync() after stop_sync(): the loop it starts goes on from the
\* count of the loop before it.
C16_FailedAttempts ==
    [][/\ \A t \in Threads :
            LET fa == sync_threads[t].failed_attempts
                fa2 == sync_threads'[t].failed_attempts
            IN  /\ JobEnds(t, "ConnectionError") => fa2 = fa + 1
                /\ JobEnds(t, "ok") => fa2 = 0
                /\ JobEnds(t, "ValueError") => fa2 = fa
       /\ start_sync =>
            \A t \in Loops, u \in Loops' \ Loops :
               sync_threads[t].stopped =>
                 sync_threads'[u].failed_attempts =
                   sync_threads[t].failed_attempts]_vars

\* C17: in every reachable state next_sync_time is last_sync_time +
\* sync_interval when last_sync_time is set, and absent when it is unset.
C17_NextSyncDerived ==
    _next_sync = IF last_sync_time = None THEN None
                 ELSE last_sync_time + _sync_interval

\* a child that has a content handler
WithHandler(c) == c.contentHandler # "none"

\* C18: constructing a Folder fetches the children once; its children are
\* then, in the order fetched, exactly the fetched children that have a
\* content handler, and the construction ends normally whatever was
\* fetched.
C18_FolderInit ==
    /\ f_pc = "new" => (f_fetches = 0 /\ children = <<>>)
    /\ f_pc # "new" =>
         /\ f_fetches = 1
         /\ children =
              SelectSeq([i \in 1..Len(f_remote) |-> Child(i, f_remote[i])],
                        WithHandler)

\* a Folder was built from three fetched children, the second without a
\* handler
C18_Witness ==
    /\ f_pc = "built"
    /\ f_fetches = 1
    /\ Len(f_remote) = 3
    /\ f_remote[2].contentHandler = "none"
    /\ Len(children) = 2
    /\ children[1].id = 1 /\ children[2].id = 3

\* C19: when force_sync() was called while a job was in flight and the
\* loop stays active, the next tick after that job ended starts a further
\* Download Job, whatever outdated is.
C19_ForceNotLost ==
    \A t \in Threads :
       (/\ forced_busy /\ _is_active /\ InFlight = {}
        /\ AtLoop(t) /\ ~sync_threads[t].stopped) =>
         ENABLED StartJob(t)

\* C20: whenever the loop creates a Download Job, is_logged_in is true and
\* the session is set: it is the session of an auth() that succeeded.
C20_JobHasLiveSession ==
    [][\A t \in Threads :
         (StartJob(t) \/ NoSession(t)) =>
           (_is_logged_in /\ sess \in Creds)]_vars

=============================================================================
